---- MODULE Spec2Model ----
(***************************************************************************)
(* Model of the M-Pesa demo.  The backend (server.js, listed in           *)
(* README.md): the in-memory transaction store, the initiation handler    *)
(* with its two awaited gateway calls, the callback handler and the       *)
(* status query.  The payment wizard (MpesaPayment.tsx): its step, form   *)
(* fields, error text and pending call.  Three specifications share the   *)
(* variables: Spec runs the backend, SpecWizard the wizard and SpecPhone  *)
(* applies the phone normalisation to drawn inputs; each one leaves the   *)
(* variables of the others at their initial values.                       *)
(*                                                                         *)
(* Strings the code inspects character by character (amount, phone        *)
(* number, account reference) are sequences of one-character strings.     *)
(* An optional JavaScript value is <<>> (undefined) or <<v>>.             *)
(* Amounts are held in hundredths (parseFloat("2.5") is 250).             *)
(***************************************************************************)
EXTENDS Integers, Sequences, FiniteSets, Bags, TLC

VARIABLES transactions, reqs, last, gwNext, started, wiz, fmt

vars == <<transactions, reqs, last, gwNext, started, wiz, fmt>>

backendVars == <<transactions, reqs, last, gwNext, started>>

-----------------------------------------------------------------------------
(* Bounds of the exploration *)

MaxInits == 2

-----------------------------------------------------------------------------
(* Optional values *)

None == <<>>

Some(v) == <<v>>

IsSome(o) == o # <<>>

Val(o) == o[1]

(* new Date(): no handler computes with or compares instants, they are    *)
(* only stored and returned, so one instant stands for all of them        *)
Now == "Date"

-----------------------------------------------------------------------------
(* Characters and numbers *)

Digits == {"0", "1", "2", "3", "4", "5", "6", "7", "8", "9"}

IsDigit(c) == c \in Digits

DigitVal(c) ==
  CASE c = "0" -> 0 [] c = "1" -> 1 [] c = "2" -> 2 [] c = "3" -> 3
    [] c = "4" -> 4 [] c = "5" -> 5 [] c = "6" -> 6 [] c = "7" -> 7
    [] c = "8" -> 8 [] c = "9" -> 9

RECURSIVE DigitsToNat(_)
DigitsToNat(s) ==
  IF s = <<>> THEN 0
  ELSE 10 * DigitsToNat(SubSeq(s, 1, Len(s) - 1)) + DigitVal(s[Len(s)])

AllDigits(s) == \A k \in 1..Len(s) : IsDigit(s[k])

StartsWith(s, p) == Len(s) >= Len(p) /\ SubSeq(s, 1, Len(p)) = p

(* the position of the first "." in s, or 0 *)
DotPos(s) ==
  IF \E k \in 1..Len(s) : s[k] = "."
  THEN CHOOSE k \in 1..Len(s) : s[k] = "." /\ \A j \in 1..(k - 1) : s[j] # "."
  ELSE 0

Unsigned(s) == IF s # <<>> /\ s[1] \in {"+", "-"} THEN Tail(s) ELSE s

IntPart(u) == IF DotPos(u) = 0 THEN u ELSE SubSeq(u, 1, DotPos(u) - 1)

FracPart(u) == IF DotPos(u) = 0 THEN <<>> ELSE SubSeq(u, DotPos(u) + 1, Len(u))

(* s is a decimal literal: [+-]? (digits [. digits*] | . digits).  The    *)
(* exponent, hexadecimal, Infinity and blank-padded forms that Number()   *)
(* also accepts are outside the inputs explored.                          *)
IsDecimalLiteral(s) ==
  LET u == Unsigned(s) IN
  /\ AllDigits(IntPart(u))
  /\ AllDigits(FracPart(u))
  /\ Len(IntPart(u)) + Len(FracPart(u)) >= 1

(* isNaN(str): Number("") is 0, every other non-literal is NaN *)
isNaN(s) == s # <<>> /\ ~IsDecimalLiteral(s)

(* parseFloat(str) in hundredths, for a decimal literal; digits after the *)
(* second decimal place are dropped (the comparison with 1 is unaffected) *)
parseFloat(s) ==
  LET u == Unsigned(s)
      f == FracPart(u) \o <<"0", "0">>
      mag == 100 * DigitsToNat(IntPart(u)) + DigitsToNat(SubSeq(f, 1, 2))
  IN IF s # <<>> /\ s[1] = "-" THEN 0 - mag ELSE mag

-----------------------------------------------------------------------------
(* Utility functions of the server *)

CountryCode == <<"2", "5", "4">>

formatPhoneNumber_KeepsLeadingZero(phone) ==
  LET stripped == SelectSeq(phone, IsDigit)
  IN IF ~StartsWith(stripped, CountryCode) THEN CountryCode \o stripped ELSE stripped

formatPhoneNumber(phone) ==
  LET stripped == SelectSeq(phone, IsDigit)
      p1 == IF StartsWith(stripped, <<"0">>)
            THEN CountryCode \o SubSeq(stripped, 2, Len(stripped))
            ELSE stripped
  IN IF ~StartsWith(p1, CountryCode) THEN CountryCode \o p1 ELSE p1

(* /^254[0-9]{9}$/ *)
PhoneRegex(s) == Len(s) = 12 /\ StartsWith(s, CountryCode) /\ AllDigits(s)

AmountInvalid(amount) ==
  \/ ~IsSome(amount)
  \/ Val(amount) = <<>>
  \/ isNaN(Val(amount))
  \/ parseFloat(Val(amount)) < 100

ReferenceInvalid(ref) == ~IsSome(ref) \/ Len(Val(ref)) < 3

(* validatePaymentRequest for a request whose phoneNumber is a string *)
validatePaymentRequest(data) ==
  LET phone == formatPhoneNumber(Val(data.phoneNumber))
      e1 == IF AmountInvalid(data.amount) THEN <<"Invalid amount">> ELSE <<>>
      e2 == IF ~PhoneRegex(phone) THEN <<"Invalid phone number format">> ELSE <<>>
      e3 == IF ReferenceInvalid(data.accountReference)
            THEN <<"Invalid account reference">> ELSE <<>>
  IN [errors |-> e1 \o e2 \o e3, formattedPhone |-> phone]

(* formatPhoneNumber(undefined) calls undefined.replace: a TypeError *)
ValidationThrows(data) == ~IsSome(data.phoneNumber)

RECURSIVE Join(_)
Join(errs) ==
  IF Len(errs) = 0 THEN ""
  ELSE IF Len(errs) = 1 THEN errs[1]
  ELSE errs[1] \o ", " \o Join(Tail(errs))

-----------------------------------------------------------------------------
(* The store: a Map keeps insertion order; set() on a present key         *)
(* replaces the value in place                                            *)

TxnIds == {"TXN_a", "TXN_b"}

KeyIndex(store, id) ==
  IF \E k \in 1..Len(store) : store[k].transactionId = id
  THEN CHOOSE k \in 1..Len(store) : store[k].transactionId = id
  ELSE 0

MapSet(store, id, rec) ==
  IF KeyIndex(store, id) = 0 THEN Append(store, rec)
  ELSE [store EXCEPT ![KeyIndex(store, id)] = rec]

-----------------------------------------------------------------------------
(* Callback handler: app.post('/api/mpesa/callback')                       *)

AckBody == [ResultCode |-> 0, ResultDesc |-> "Success"]

(* res.json(...) at the end of the try block: status 200 by default *)
CallbackTryResponse == [status |-> 200, body |-> AckBody]

(* a catch block that reports the failure to the gateway *)
CallbackCatchResponse_Reports ==
  [status |-> 500, body |-> [ResultCode |-> 1, ResultDesc |-> "Failed"]]

(* res.json(...) in the catch block *)
CallbackCatchResponse == [status |-> 200, body |-> AckBody]

(* a find whose predicate does not compare the ids: the first record *)
FindByCheckout_AnyRecord(store, id) == IF Len(store) > 0 THEN 1 ELSE 0

(* Array.from(transactions.values()).find(t => t.checkoutRequestId === id): *)
(* the index of the first record, in insertion order, or 0                 *)
FindByCheckout(store, id) ==
  IF \E k \in 1..Len(store) : store[k].checkoutRequestId = id
  THEN CHOOSE k \in 1..Len(store) :
         /\ store[k].checkoutRequestId = id
         /\ \A j \in 1..(k - 1) : store[j].checkoutRequestId # id
  ELSE 0

(* the receipt read at a fixed position of the list *)
ReceiptOf_FirstItem(items) ==
  IF Len(items) > 0 THEN Some(items[1].Value) ELSE None

(* Item.find(item => item.Name === 'MpesaReceiptNumber')?.Value *)
ReceiptOf(items) ==
  IF \E k \in 1..Len(items) : items[k].Name = "MpesaReceiptNumber"
  THEN LET k == CHOOSE k \in 1..Len(items) :
                  /\ items[k].Name = "MpesaReceiptNumber"
                  /\ \A j \in 1..(k - 1) : items[j].Name # "MpesaReceiptNumber"
       IN Some(items[k].Value)
  ELSE None

(* stkCallback.CallbackMetadata?.Item?.find(...)?.Value: undefined when    *)
(* CallbackMetadata is absent                                              *)
ReceiptFromMetadata(meta) ==
  IF meta.kind = "absent" THEN None ELSE ReceiptOf(meta.items)

(* the branch on stkCallback.ResultCode === 0 *)
IsSuccessCode(code) == code = 0

(* The handler on request body p, the store being store at time now.      *)
(* p.kind = "noBody": req.body has no Body, Body.stkCallback throws.       *)
(* p.kind = "noStk": Body has no stkCallback; the find predicate throws on *)
(*   the first record it is applied to, and is never applied to an empty   *)
(*   store.                                                                *)
(* p.meta.kind = "notList": CallbackMetadata.Item is not an array, so      *)
(*   Item.find throws after the status has been assigned.                  *)
CallbackHandler(store, p, now) ==
  IF p.kind = "noBody"
  THEN [store |-> store, res |-> CallbackCatchResponse, threw |-> TRUE, matched |-> FALSE]
  ELSE IF p.kind = "noStk"
  THEN IF Len(store) = 0
       THEN [store |-> store, res |-> CallbackTryResponse, threw |-> FALSE, matched |-> FALSE]
       ELSE [store |-> store, res |-> CallbackCatchResponse, threw |-> TRUE, matched |-> FALSE]
  ELSE LET k == FindByCheckout(store, p.CheckoutRequestID) IN
       IF k = 0
       THEN [store |-> store, res |-> CallbackTryResponse, threw |-> FALSE, matched |-> FALSE]
       ELSE IF IsSuccessCode(p.ResultCode)
       THEN IF p.meta.kind = "notList"
            THEN [store |-> [store EXCEPT ![k].status = "SUCCESS"],
                  res |-> CallbackCatchResponse, threw |-> TRUE, matched |-> TRUE]
            ELSE [store |-> [store EXCEPT ![k].status = "SUCCESS",
                                          ![k].mpesaReceiptNumber = ReceiptFromMetadata(p.meta),
                                          ![k].callbackReceived = Some(now)],
                  res |-> CallbackTryResponse, threw |-> FALSE, matched |-> TRUE]
       ELSE [store |-> [store EXCEPT ![k].status = "FAILED",
                                     ![k].failureReason = p.ResultDesc,
                                     ![k].callbackReceived = Some(now)],
             res |-> CallbackTryResponse, threw |-> FALSE, matched |-> TRUE]

-----------------------------------------------------------------------------
(* Status query: app.get('/api/mpesa/status/:transactionId')               *)

(* a status answer that reports every stored transaction as pending *)
StatusResponse_AlwaysPending(store, id) ==
  LET k == KeyIndex(store, id) IN
  IF k = 0
  THEN [status |-> 404, body |-> [error |-> "Transaction not found"]]
  ELSE [status |-> 200,
        body |-> [transactionId |-> id,
                  status |-> "PENDING",
                  amount |-> store[k].amount,
                  phoneNumber |-> store[k].phoneNumber,
                  timestamp |-> store[k].timestamp,
                  mpesaReceiptNumber |-> store[k].mpesaReceiptNumber]]

StatusResponse(store, id) ==
  LET k == KeyIndex(store, id) IN
  IF k = 0
  THEN [status |-> 404, body |-> [error |-> "Transaction not found"]]
  ELSE [status |-> 200,
        body |-> [transactionId |-> id,
                  status |-> store[k].status,
                  amount |-> store[k].amount,
                  phoneNumber |-> store[k].phoneNumber,
                  timestamp |-> store[k].timestamp,
                  mpesaReceiptNumber |-> store[k].mpesaReceiptNumber]]

-----------------------------------------------------------------------------
(* Initiation handler: app.post('/api/mpesa/initiate')                     *)

GenericInitiateError == "Payment initiation failed"

InitiateValidationResponse(errors) ==
  [status |-> 400,
   body |-> [ResponseCode |-> "1", errorMessage |-> Some(Join(errors)),
             transactionId |-> None, CheckoutRequestID |-> None]]

(* the catch block: error.response?.data?.errorMessage || generic message *)
InitiateCatchResponse(gatewayMessage) ==
  [status |-> 500,
   body |-> [ResponseCode |-> "1",
             errorMessage |-> IF IsSome(gatewayMessage) THEN gatewayMessage
                              ELSE Some(GenericInitiateError),
             transactionId |-> None, CheckoutRequestID |-> None]]

InitiateSuccessResponse(mpesaResponse, transactionId) ==
  [status |-> 200,
   body |-> [ResponseCode |-> mpesaResponse.ResponseCode, errorMessage |-> None,
             transactionId |-> Some(transactionId),
             CheckoutRequestID |-> Some(mpesaResponse.CheckoutRequestID)]]

(* a handler without the early return *)
HasErrors_NoReturn(errors) == FALSE

(* the early return on errors.length > 0 *)
HasErrors(errors) == Len(errors) > 0

NoInbox == [kind |-> "none", ResponseCode |-> "", CheckoutRequestID |-> 0, errorMessage |-> None]

(* the record built from the gateway's acknowledgment (the fields          *)
(* merchantRequestId, mpesaResponse and callbackData are written and never *)
(* read by any handler; they are left out)                                 *)
NewTransaction(r, mpesaResponse, now) ==
  [transactionId |-> r.transactionId,
   checkoutRequestId |-> mpesaResponse.CheckoutRequestID,
   amount |-> parseFloat(Val(r.amount)),
   phoneNumber |-> r.formattedPhone,
   accountReference |-> Val(r.accountReference),
   status |-> "PENDING",
   timestamp |-> now,
   mpesaReceiptNumber |-> None,
   failureReason |-> None,
   callbackReceived |-> None]

(* a handler that stores the record whatever the gateway answered *)
InitiateAfterPush_StoresAlways(store, r, now) ==
  IF r.inbox.kind = "ack"
  THEN [store |-> MapSet(store, r.transactionId, NewTransaction(r, r.inbox, now)),
        res |-> InitiateSuccessResponse(r.inbox, r.transactionId)]
  ELSE [store |-> MapSet(store, r.transactionId, NewTransaction(r, r.inbox, now)),
        res |-> InitiateCatchResponse(r.inbox.errorMessage)]

(* what the handler does when the awaited axios.post settles: store and    *)
(* answer on an acknowledgment, the catch block otherwise                  *)
InitiateAfterPush(store, r, now) ==
  IF r.inbox.kind = "ack"
  THEN [store |-> MapSet(store, r.transactionId, NewTransaction(r, r.inbox, now)),
        res |-> InitiateSuccessResponse(r.inbox, r.transactionId)]
  ELSE [store |-> store, res |-> InitiateCatchResponse(r.inbox.errorMessage)]

-----------------------------------------------------------------------------
(* Inputs explored *)

Amounts ==
  { None,
    Some(<<"a", "b", "c">>),
    Some(<<"0", ".", "5">>),
    Some(<<"1">>) }

Phones ==
  { None,
    Some(<<"0", "7", "1", "2", "3", "4", "5", "6", "7", "8">>),
    Some(<<"2", "5", "4", "7", "1", "2", "3", "4", "5", "6", "7", "8">>),
    Some(<<"+", "2", "5", "4", " ", "7", "1", "2", "3", "4", "5", "6", "7", "8">>),
    Some(<<"1", "2", "3", "4", "5">>) }

References ==
  { None, Some(<<"A", "B">>), Some(<<"O", "R", "D">>) }

Bodies ==
  [amount : Amounts, phoneNumber : Phones, accountReference : References]

ReceiptLast ==
  << [Name |-> "Amount", Value |-> "100"], [Name |-> "MpesaReceiptNumber", Value |-> "R1"] >>

NoReceipt ==
  << [Name |-> "Amount", Value |-> "100"] >>

(* the metadata of a success notification: absent, not an array, or a list *)
Metadatas ==
  { [kind |-> "absent", items |-> <<>>],
    [kind |-> "notList", items |-> <<>>],
    [kind |-> "list", items |-> ReceiptLast],
    [kind |-> "list", items |-> NoReceipt] }

SuccessDesc == Some("The service request is processed successfully.")

FailureDesc == Some("Request cancelled by user")

(* ids the gateway hands out are 1, 2, ...; one more is never handed out *)
CheckoutIds == 1..(MaxInits + 1)

CallbackPayloads ==
  [kind : {"stk"}, CheckoutRequestID : CheckoutIds, ResultCode : {0},
   ResultDesc : {SuccessDesc}, meta : Metadatas]
  \cup
  [kind : {"stk"}, CheckoutRequestID : CheckoutIds, ResultCode : {1032},
   ResultDesc : {FailureDesc}, meta : {[kind |-> "absent", items |-> <<>>]}]
  \cup
  [kind : {"noBody", "noStk"}, CheckoutRequestID : {0}, ResultCode : {0},
   ResultDesc : {None}, meta : {[kind |-> "absent", items |-> <<>>]}]

QueryIds == TxnIds \cup {"TXN_zz"}

GatewayRejection == Some("Bad Request - Invalid Access Token")

-----------------------------------------------------------------------------
(* Payment wizard: MpesaPayment.tsx                                        *)
(* A wizard state w is the component's state (step, formData, loading,    *)
(* error) together with call, the request of the fetch it is awaiting.    *)

EmptyForm == [amount |-> <<>>, phoneNumber |-> <<>>, pin |-> <<>>]

WizardInitial ==
  [step |-> "amount", formData |-> EmptyForm, loading |-> FALSE,
   error |-> "", call |-> None]

AmountError == "Please enter a valid amount"

PhoneError == "Please enter a valid phone number (254XXXXXXXXX)"

PinError == "PIN must be 4 digits"

PaymentFailedError == "Payment failed. Please try again."

NetworkError == "Network error. Please check your connection and try again."

(* !formData.amount || parseFloat(formData.amount) < 1; the number input  *)
(* delivers "" or a numeric literal, and NaN < 1 is false                 *)
AmountRejected_EmptyOnly(amount) == amount = <<>>

AmountRejected(amount) ==
  \/ amount = <<>>
  \/ IsDecimalLiteral(amount) /\ parseFloat(amount) < 100

(* /^254[0-9]{9}$/.test(formData.phoneNumber): the text as typed *)
PhoneAccepted_Normalized(phone) == PhoneRegex(formatPhoneNumber(phone))

PhoneAccepted(phone) == PhoneRegex(phone)

(* e.target.value.replace(/\D/g, '') *)
StripNonDigits(raw) == SelectSeq(raw, IsDigit)

(* setFormData(prev => ({...prev, [field]: value})); if (error) setError('') *)
handleInputChange(w, field, value) ==
  [w EXCEPT !.formData[field] = value, !.error = ""]

(* the buttons that only call setStep: Back, Back, Try Again *)
setStep_ClearsForm(w, target) == [w EXCEPT !.step = target, !.formData = EmptyForm]

setStep(w, target) == [w EXCEPT !.step = target]

PhoneBackTarget == "amount"

PinBackTarget == "phone"

RetryTarget_Processing == "processing"

RetryTarget == "pin"

handleAmountSubmit(w) ==
  IF AmountRejected(w.formData.amount)
  THEN [w EXCEPT !.error = AmountError]
  ELSE [w EXCEPT !.error = "", !.step = "phone"]

handlePhoneSubmit(w) ==
  IF ~PhoneAccepted(w.formData.phoneNumber)
  THEN [w EXCEPT !.error = PhoneError]
  ELSE [w EXCEPT !.error = "", !.step = "pin"]

(* initiatePayment up to its await: the request carries amount and phone, *)
(* never the PIN                                                           *)
initiatePayment(w) ==
  [w EXCEPT !.loading = TRUE, !.step = "processing",
            !.call = Some([amount |-> w.formData.amount,
                           phoneNumber |-> w.formData.phoneNumber,
                           accountReference |-> "ORDER_" \o Now])]

handlePinSubmit(w) ==
  IF Len(w.formData.pin) # 4
  THEN [w EXCEPT !.error = PinError]
  ELSE initiatePayment([w EXCEPT !.error = ""])

(* what the awaited fetch can give: a rejection ("network"), a response   *)
(* whose body is not JSON ("notJson": response.json() throws), or a       *)
(* response with a JSON object                                             *)
ServerMessage == Some("Invalid amount")

Responses ==
  [kind : {"json"}, ok : BOOLEAN, ResponseCode : {None, Some("0"), Some("1")},
   errorMessage : {None, ServerMessage}]
  \cup
  [kind : {"notJson"}, ok : BOOLEAN, ResponseCode : {None}, errorMessage : {None}]
  \cup
  [kind : {"network"}, ok : {FALSE}, ResponseCode : {None}, errorMessage : {None}]

(* data.errorMessage || 'Payment failed. Please try again.' *)
MessageOf(resp) ==
  IF IsSome(resp.errorMessage) /\ Val(resp.errorMessage) # ""
  THEN Val(resp.errorMessage)
  ELSE PaymentFailedError

(* initiatePayment from its await on: try, catch, finally *)
initiatePaymentResume_IgnoresStatus(w, resp) ==
  LET settled ==
        IF resp.kind = "json"
        THEN IF resp.ResponseCode = Some("0")
             THEN [w EXCEPT !.step = "success"]
             ELSE [w EXCEPT !.error = MessageOf(resp), !.step = "error"]
        ELSE [w EXCEPT !.error = NetworkError, !.step = "error"]
  IN [settled EXCEPT !.loading = FALSE, !.call = None]

initiatePaymentResume_CatchKeepsStep(w, resp) ==
  LET settled ==
        IF resp.kind = "json"
        THEN IF resp.ok /\ resp.ResponseCode = Some("0")
             THEN [w EXCEPT !.step = "success"]
             ELSE [w EXCEPT !.error = MessageOf(resp), !.step = "error"]
        ELSE [w EXCEPT !.error = NetworkError]
  IN [settled EXCEPT !.loading = FALSE, !.call = None]

initiatePaymentResume(w, resp) ==
  LET settled ==
        IF resp.kind = "json"
        THEN IF resp.ok /\ resp.ResponseCode = Some("0")
             THEN [w EXCEPT !.step = "success"]
             ELSE [w EXCEPT !.error = MessageOf(resp), !.step = "error"]
        ELSE [w EXCEPT !.error = NetworkError, !.step = "error"]
  IN [settled EXCEPT !.loading = FALSE, !.call = None]

resetForm_KeepsPin(w) ==
  [w EXCEPT !.step = "amount",
            !.formData = [EmptyForm EXCEPT !.pin = w.formData.pin],
            !.error = "", !.loading = FALSE]

resetForm(w) ==
  [w EXCEPT !.step = "amount", !.formData = EmptyForm,
            !.error = "", !.loading = FALSE]

(* what the user types: the number input gives "" or a numeric literal *)
TypedAmounts ==
  { <<>>, <<"0">>, <<"0", ".", "5">>, <<"1">>, <<"5", "0", "0">> }

Local0712 == <<"0", "7", "1", "2", "3", "4", "5", "6", "7", "8">>

Bare712 == <<"7", "1", "2", "3", "4", "5", "6", "7", "8">>

Canon712 == <<"2", "5", "4", "7", "1", "2", "3", "4", "5", "6", "7", "8">>

TypedPhones ==
  { <<>>, Local0712, Canon712,
    <<"2", "5", "4", "7", "1", "2", "3", "4", "5", "6", "7">> }

(* the PIN input holds at most 4 characters (maxLength) *)
TypedPins ==
  { <<>>, <<"1", "2", "3">>, <<"1", "2", "3", "4">>, <<"1", "2", "a", "4">> }

-----------------------------------------------------------------------------
(* Inputs of the phone normalisation: a subscriber number written in the  *)
(* international, the local, the bare and a punctuated form               *)

SubscriberHeads == {"0", "1", "2", "7"}

Subscribers ==
  { <<a, b>> \o <<"2", "3", "4", "5", "6", "7", "8">> :
      a \in SubscriberHeads, b \in SubscriberHeads }

NormInputs ==
  UNION { { CountryCode \o s, <<"0">> \o s, s, <<"+", "2", "5", "4", " ">> \o s } :
          s \in Subscribers }

FmtIdle == [phase |-> "idle", input |-> <<>>, output |-> <<>>]

-----------------------------------------------------------------------------
(* State machine                                                           *)
(* transactions: the Map, in insertion order                               *)
(* reqs: the initiation requests suspended at an await (a bag: they do    *)
(*   not interact, and two of them can be equal)                           *)
(* last: the handler that answered most recently, and its response         *)
(* gwNext: the next CheckoutRequestID of the gateway                       *)
(* started: the number of initiation requests received                     *)
(* wiz: the wizard; fmt: the normalisation under examination (both stay   *)
(*   as they are while the backend runs)                                   *)

NoCalls == <<>>

Init ==
  /\ transactions = <<>>
  /\ reqs = EmptyBag
  /\ last = [op |-> "none", res |-> [status |-> 0, body |-> AckBody],
             threw |-> FALSE, matched |-> FALSE, calls |-> NoCalls]
  /\ gwNext = 1
  /\ started = 0
  /\ wiz = WizardInitial
  /\ fmt = FmtIdle

Remove(bag, r) == bag (-) SetToBag({r})

Add(bag, r) == bag (+) SetToBag({r})

(* the handler's answer when it returns before the first await: the catch  *)
(* block's, the validation failure's, or none (<<>>)                       *)
InitiateEarlyResponse(data) ==
  IF ValidationThrows(data) THEN Some(InitiateCatchResponse(None))
  ELSE IF HasErrors(validatePaymentRequest(data).errors)
  THEN Some(InitiateValidationResponse(validatePaymentRequest(data).errors))
  ELSE None

(* the same, tabulated over the requests explored *)
EarlyResponseOf == [data \in Bodies |-> InitiateEarlyResponse(data)]

(* POST /api/mpesa/initiate arrives: validation, then generateTransactionId *)
(* (a draw from TxnIds) and the token request                              *)
InitiateBegin(data) ==
  /\ started < MaxInits
  /\ started' = started + 1
  /\ IF IsSome(EarlyResponseOf[data])
     THEN /\ last' = [op |-> "initiate", res |-> Val(EarlyResponseOf[data]),
                      threw |-> ValidationThrows(data), matched |-> FALSE,
                      calls |-> NoCalls]
          /\ UNCHANGED reqs
     ELSE /\ \E tid \in TxnIds :
               reqs' = Add(reqs,
                 [pc |-> "token", amount |-> data.amount,
                  formattedPhone |-> formatPhoneNumber(Val(data.phoneNumber)),
                  accountReference |-> data.accountReference,
                  transactionId |-> tid, accessToken |-> None,
                  calls |-> <<"token">>, inbox |-> NoInbox])
          /\ UNCHANGED last
  /\ UNCHANGED <<transactions, gwNext, wiz, fmt>>

(* the awaited token request of r settles: a token, a 2xx answer that      *)
(* carries no access_token, or an error (getAccessToken rethrows, the      *)
(* handler's catch block answers)                                          *)
TokenReturn(r, t) ==
  /\ r.pc = "token"
  /\ IF t = "error"
     THEN /\ reqs' = Remove(reqs, r)
          /\ last' = [op |-> "initiate", res |-> InitiateCatchResponse(None),
                      threw |-> TRUE, matched |-> FALSE, calls |-> r.calls]
     ELSE /\ reqs' = Add(Remove(reqs, r),
                         [r EXCEPT !.pc = "push",
                                   !.accessToken = IF t = "ok" THEN Some("tok") ELSE None,
                                   !.calls = Append(@, "push")])
          /\ UNCHANGED last
  /\ UNCHANGED <<transactions, gwNext, started, wiz, fmt>>

PushAnswer(a, id) ==
  CASE a = "ack" -> [kind |-> "ack", ResponseCode |-> "0",
                     CheckoutRequestID |-> id, errorMessage |-> None]
    [] a = "reject" -> [kind |-> "reject", ResponseCode |-> "",
                        CheckoutRequestID |-> 0, errorMessage |-> GatewayRejection]
    [] a = "network" -> [kind |-> "network", ResponseCode |-> "",
                         CheckoutRequestID |-> 0, errorMessage |-> None]

(* the gateway answers the push request of r: an acknowledgment with a     *)
(* fresh CheckoutRequestID (only for a request that carried a token), an   *)
(* error payload, or no answer at all (network failure)                    *)
GatewayAnswersPush(r, a) ==
  /\ r.pc = "push"
  /\ a = "ack" => IsSome(r.accessToken)
  /\ reqs' = Add(Remove(reqs, r), [r EXCEPT !.pc = "pushed", !.inbox = PushAnswer(a, gwNext)])
  /\ gwNext' = IF a = "ack" THEN gwNext + 1 ELSE gwNext
  /\ UNCHANGED <<transactions, last, started, wiz, fmt>>

(* the awaited axios.post of r settles in the handler *)
InitiateResume(r) ==
  /\ r.pc = "pushed"
  /\ LET out == InitiateAfterPush(transactions, r, Now) IN
     /\ transactions' = out.store
     /\ last' = [op |-> "initiate", res |-> out.res,
                 threw |-> (r.inbox.kind # "ack"), matched |-> FALSE,
                 calls |-> r.calls]
  /\ reqs' = Remove(reqs, r)
  /\ UNCHANGED <<gwNext, started, wiz, fmt>>

(* POST /api/mpesa/callback *)
Callback(p) ==
  /\ LET out == CallbackHandler(transactions, p, Now) IN
     /\ transactions' = out.store
     /\ last' = [op |-> "callback", res |-> out.res, threw |-> out.threw,
                 matched |-> out.matched, calls |-> NoCalls]
  /\ UNCHANGED <<reqs, gwNext, started, wiz, fmt>>

(* GET /api/mpesa/status/:transactionId *)
StatusQuery(id) ==
  /\ last' = [op |-> "status", res |-> StatusResponse(transactions, id),
              threw |-> FALSE, matched |-> KeyIndex(transactions, id) # 0,
              calls |-> NoCalls]
  /\ UNCHANGED <<transactions, reqs, gwNext, started, wiz, fmt>>

Next ==
  \/ \E data \in Bodies : InitiateBegin(data)
  \/ \E r \in BagToSet(reqs), t \in {"ok", "noToken", "error"} : TokenReturn(r, t)
  \/ \E r \in BagToSet(reqs), a \in {"ack", "reject", "network"} : GatewayAnswersPush(r, a)
  \/ \E r \in BagToSet(reqs) : InitiateResume(r)
  \/ \E p \in CallbackPayloads : Callback(p)
  \/ \E id \in QueryIds : StatusQuery(id)

Spec == Init /\ [][Next]_vars

-----------------------------------------------------------------------------
(* The wizard as a state machine: one action per control the current step *)
(* renders, and one for the resolution of the awaited call                *)

EditAmount(v) ==
  /\ wiz.step = "amount"
  /\ wiz' = handleInputChange(wiz, "amount", v)
  /\ UNCHANGED <<backendVars, fmt>>

EditPhone(v) ==
  /\ wiz.step = "phone"
  /\ wiz' = handleInputChange(wiz, "phoneNumber", v)
  /\ UNCHANGED <<backendVars, fmt>>

EditPin(raw) ==
  /\ wiz.step = "pin"
  /\ wiz' = handleInputChange(wiz, "pin", StripNonDigits(raw))
  /\ UNCHANGED <<backendVars, fmt>>

AmountContinue ==
  /\ wiz.step = "amount"
  /\ wiz' = handleAmountSubmit(wiz)
  /\ UNCHANGED <<backendVars, fmt>>

PhoneContinue ==
  /\ wiz.step = "phone"
  /\ wiz' = handlePhoneSubmit(wiz)
  /\ UNCHANGED <<backendVars, fmt>>

PhoneBack ==
  /\ wiz.step = "phone"
  /\ wiz' = setStep(wiz, PhoneBackTarget)
  /\ UNCHANGED <<backendVars, fmt>>

PayNow ==
  /\ wiz.step = "pin"
  /\ wiz' = handlePinSubmit(wiz)
  /\ UNCHANGED <<backendVars, fmt>>

PinBack ==
  /\ wiz.step = "pin"
  /\ wiz' = setStep(wiz, PinBackTarget)
  /\ UNCHANGED <<backendVars, fmt>>

CallResolves(resp) ==
  /\ IsSome(wiz.call)
  /\ wiz' = initiatePaymentResume(wiz, resp)
  /\ UNCHANGED <<backendVars, fmt>>

TryAgain ==
  /\ wiz.step = "error"
  /\ wiz' = setStep(wiz, RetryTarget)
  /\ UNCHANGED <<backendVars, fmt>>

StartOver ==
  /\ wiz.step = "error"
  /\ wiz' = resetForm(wiz)
  /\ UNCHANGED <<backendVars, fmt>>

MakeAnotherPayment ==
  /\ wiz.step = "success"
  /\ wiz' = resetForm(wiz)
  /\ UNCHANGED <<backendVars, fmt>>

WizardNext ==
  \/ \E v \in TypedAmounts : EditAmount(v)
  \/ \E v \in TypedPhones : EditPhone(v)
  \/ \E raw \in TypedPins : EditPin(raw)
  \/ AmountContinue
  \/ PhoneContinue
  \/ PhoneBack
  \/ PayNow
  \/ PinBack
  \/ \E resp \in Responses : CallResolves(resp)
  \/ TryAgain
  \/ StartOver
  \/ MakeAnotherPayment

SpecWizard == Init /\ [][WizardNext]_vars

(* the awaited fetch settles: it resolves or rejects *)
SpecWizardFair ==
  SpecWizard /\ WF_vars(\E resp \in Responses : CallResolves(resp))

-----------------------------------------------------------------------------
(* The phone normalisation applied to a drawn input, and then once more   *)
(* to its own result                                                       *)

PhoneInit ==
  /\ transactions = <<>>
  /\ reqs = EmptyBag
  /\ last = [op |-> "none", res |-> [status |-> 0, body |-> AckBody],
             threw |-> FALSE, matched |-> FALSE, calls |-> NoCalls]
  /\ gwNext = 1
  /\ started = 0
  /\ wiz = WizardInitial
  /\ fmt \in [phase : {"drawn"}, input : NormInputs, output : {<<>>}]

Normalize ==
  /\ fmt.phase = "drawn"
  /\ fmt' = [fmt EXCEPT !.phase = "once", !.output = formatPhoneNumber(fmt.input)]
  /\ UNCHANGED <<backendVars, wiz>>

NormalizeAgain ==
  /\ fmt.phase = "once"
  /\ fmt' = [phase |-> "twice", input |-> fmt.output,
             output |-> formatPhoneNumber(fmt.output)]
  /\ UNCHANGED <<backendVars, wiz>>

PhoneNext == Normalize \/ NormalizeAgain

SpecPhone == PhoneInit /\ [][PhoneNext]_vars

-----------------------------------------------------------------------------
(* Properties                                                              *)

Ack == [status |-> 200, body |-> [ResultCode |-> 0, ResultDesc |-> "Success"]]

Records == 1..Len(transactions)

Resolved(rec) == rec.status \in {"SUCCESS", "FAILED"}

MatchesSome(p) ==
  \E k \in Records : transactions[k].checkoutRequestId = p.CheckoutRequestID

(* C1: once a record is SUCCESS or FAILED, a callback with the same gateway *)
(* request id, whatever its result code, leaves the record's status,       *)
(* receipt number and failure reason as they are.                          *)
C1_ResolvedRecordIsFinal ==
  [][\A p \in CallbackPayloads :
       Callback(p) =>
         \A k \in Records :
           Resolved(transactions[k]) =>
             /\ transactions'[k].status = transactions[k].status
             /\ transactions'[k].mpesaReceiptNumber = transactions[k].mpesaReceiptNumber
             /\ transactions'[k].failureReason = transactions[k].failureReason]_vars

(* C2: every callback request, whether it matches a record, matches none   *)
(* or makes the processing throw, is answered 200 with                     *)
(* {ResultCode: 0, ResultDesc: 'Success'}.                                 *)
C2_CallbackAlwaysAcknowledged ==
  last.op = "callback" => last.res = Ack

(* a callback whose processing threw, on a store that holds records *)
C2_Witness ==
  /\ last.op = "callback"
  /\ last.threw
  /\ Len(transactions) > 0

(* C3: a callback whose CheckoutRequestID is the id of no stored record    *)
(* leaves the whole store unchanged and is acknowledged.                   *)
C3_UnmatchedCallbackChangesNothing ==
  [][\/ (transactions' = transactions /\ last'.res = Ack)
     \/ ~ \E p \in CallbackPayloads :
            p.kind = "stk" /\ ~MatchesSome(p) /\ Callback(p)]_vars

(* an acknowledged callback that matched none of the stored records *)
C3_Witness ==
  /\ last.op = "callback"
  /\ ~last.matched
  /\ ~last.threw
  /\ Len(transactions) > 0

(* the receipt the metadata of p carries under the name MpesaReceiptNumber *)
NamedReceipt(meta, receipt) ==
  IF meta.kind = "list"
     /\ \E i \in 1..Len(meta.items) : meta.items[i].Name = "MpesaReceiptNumber"
  THEN \E i \in 1..Len(meta.items) :
         /\ meta.items[i].Name = "MpesaReceiptNumber"
         /\ receipt = <<meta.items[i].Value>>
  ELSE receipt = <<>>

C5_OptionalFieldsFollowStatus ==
  \A k \in Records :
    /\ transactions[k].mpesaReceiptNumber # <<>> => transactions[k].status = "SUCCESS"
    /\ transactions[k].failureReason # <<>> => transactions[k].status = "FAILED"

(* the validation rules as the interface states them *)
AmountFails(data) ==
  \/ data.amount = <<>>
  \/ data.amount[1] = <<>>
  \/ isNaN(data.amount[1])
  \/ parseFloat(data.amount[1]) < 100

PhoneFails(data) ==
  \/ data.phoneNumber = <<>>
  \/ ~PhoneRegex(formatPhoneNumber(data.phoneNumber[1]))

ReferenceFails(data) ==
  \/ data.accountReference = <<>>
  \/ Len(data.accountReference[1]) < 3

FailsValidation(data) == AmountFails(data) \/ PhoneFails(data) \/ ReferenceFails(data)

FailedRules(data) ==
  (IF AmountFails(data) THEN <<"Invalid amount">> ELSE <<>>)
  \o (IF PhoneFails(data) THEN <<"Invalid phone number format">> ELSE <<>>)
  \o (IF ReferenceFails(data) THEN <<"Invalid account reference">> ELSE <<>>)

FailingBodies == {data \in Bodies : FailsValidation(data)}

CallOrders == { <<>>, <<"token">>, <<"token", "push">> }

(* the fields of a suspended request, as a request body *)
BodyOf(r) ==
  [amount |-> r.amount, phoneNumber |-> <<r.formattedPhone>>,
   accountReference |-> r.accountReference]

(* C6: a request that fails validation makes no outbound call: every       *)
(* request that has fetched a token or submitted a push passed validation  *)
(* (its phone number, as normalized, included), a request answered 400 has *)
(* made no call, and the calls of one request are the token fetch and then *)
(* the push submission, in that order.                                     *)
C6_NoCallBeforeValidation ==
  /\ \A r \in BagToSet(reqs) :
       /\ r.calls \in CallOrders \ {<<>>}
       /\ ~AmountFails(BodyOf(r))
       /\ PhoneRegex(r.formattedPhone)
       /\ ~ReferenceFails(BodyOf(r))
  /\ last.calls \in CallOrders
  /\ (last.op = "initiate" /\ last.res.status = 400) => last.calls = <<>>

(* a request rejected by validation after another one went out to the      *)
(* gateway: the rejected one is answered 400 and has made no call          *)
C6_Witness ==
  /\ last.op = "initiate"
  /\ last.res.status = 400
  /\ last.calls = <<>>
  /\ \E r \in BagToSet(reqs) : r.calls = <<"token", "push">>

(* C7: every initiation request with bad input, an absent amount, phone    *)
(* number or account reference included, is answered 400 with ResponseCode *)
(* '1' and a message listing every rule it fails, and leaves the store     *)
(* unchanged.                                                              *)
C7_BadInputAnswered400 ==
  [][started' # started =>
       \A data \in FailingBodies :
         InitiateBegin(data) =>
           /\ last'.op = "initiate"
           /\ last'.res.status = 400
           /\ last'.res.body.ResponseCode = "1"
           /\ last'.res.body.errorMessage = <<Join(FailedRules(data))>>
           /\ transactions' = transactions]_vars

(* C8: the store changes through an initiation only when the gateway       *)
(* acknowledged the push; an initiation that ends in a token failure, a    *)
(* network failure or a rejection is answered 500 with ResponseCode '1'    *)
(* and leaves the store as it was.                                         *)
C8_RecordOnlyOnAcceptance ==
  [][/\ \A r \in BagToSet(reqs) :
          ( \/ TokenReturn(r, "error")
            \/ (r.pc = "pushed" /\ r.inbox.kind # "ack" /\ InitiateResume(r)) ) =>
            /\ transactions' = transactions
            /\ last'.op = "initiate"
            /\ last'.res.status = 500
            /\ last'.res.body.ResponseCode = "1"
     /\ transactions' # transactions =>
          \/ \E p \in CallbackPayloads : Callback(p)
          \/ \E r \in BagToSet(reqs) :
               r.pc = "pushed" /\ r.inbox.kind = "ack" /\ InitiateResume(r)]_vars

(* an initiation rejected by the gateway, answered 500 with the gateway's  *)
(* message, while the store holds a record                                 *)
C8_Witness ==
  /\ last.op = "initiate"
  /\ last.res.status = 500
  /\ last.res.body.errorMessage = GatewayRejection
  /\ last.calls = <<"token", "push">>
  /\ Len(transactions) = 1

(* C9: every accepted initiation adds one record, PENDING, under a         *)
(* transactionId no stored record has, and replaces or removes none.       *)
C9_AcceptedInitiationAddsRecord ==
  [][\A r \in BagToSet(reqs) :
       (r.pc = "pushed" /\ r.inbox.kind = "ack" /\ InitiateResume(r)) =>
         /\ Len(transactions') = Len(transactions) + 1
         /\ \A k \in Records : transactions'[k] = transactions[k]
         /\ transactions'[Len(transactions')].status = "PENDING"
         /\ \A k \in Records :
              transactions[k].transactionId
                # transactions'[Len(transactions')].transactionId]_vars

(* C10: a status query for an id not in the store is answered 404; for a   *)
(* stored id it returns the record's status, amount, phone number,         *)
(* timestamp and receipt number as stored; the store is unchanged.         *)
C10_StatusReportsStore ==
  [][\A id \in QueryIds :
       (last'.op = "status" /\ StatusQuery(id)) =>
         /\ transactions' = transactions
         /\ last'.op = "status"
         /\ IF \E k \in Records : transactions[k].transactionId = id
            THEN \E k \in Records :
                   /\ transactions[k].transactionId = id
                   /\ last'.res.status = 200
                   /\ last'.res.body.transactionId = id
                   /\ last'.res.body.status = transactions[k].status
                   /\ last'.res.body.amount = transactions[k].amount
                   /\ last'.res.body.phoneNumber = transactions[k].phoneNumber
                   /\ last'.res.body.timestamp = transactions[k].timestamp
                   /\ last'.res.body.mpesaReceiptNumber
                        = transactions[k].mpesaReceiptNumber
            ELSE last'.res.status = 404]_vars

(* a query answered with a record a callback has resolved to SUCCESS *)
C10_Witness ==
  /\ last.op = "status"
  /\ last.res.status = 200
  /\ last.res.body.status = "SUCCESS"
  /\ last.res.body.mpesaReceiptNumber = <<"R1">>
  /\ last.res.body.amount = 100

-----------------------------------------------------------------------------
(* Properties of the phone normalisation (SpecPhone)                       *)

(* 254 followed by nine digits, spelled out position by position *)
Canonical(s) ==
  /\ Len(s) = 12
  /\ s[1] = "2" /\ s[2] = "5" /\ s[3] = "4"
  /\ \A k \in 4..12 : s[k] \in Digits

(* C11: normalising a number that is already canonical gives it back      *)
(* unchanged, and "0712345678", "712345678" and "254712345678" all         *)
(* normalise to "254712345678".                                            *)
C11_NormalizationFixesCanonical ==
  fmt.phase \in {"once", "twice"} =>
    /\ Canonical(fmt.input) => fmt.output = fmt.input
    /\ fmt.input \in {Local0712, Bare712, Canon712} => fmt.output = Canon712

C11_Witness ==
  /\ fmt.phase = "twice"
  /\ fmt.input = Canon712
  /\ fmt.output = Canon712

-----------------------------------------------------------------------------
(* Properties of the wizard (SpecWizard)                                   *)

StepChanges ==
  { <<"amount", "phone">>, <<"phone", "pin">>, <<"phone", "amount">>,
    <<"pin", "phone">>, <<"pin", "processing">>,
    <<"processing", "success">>, <<"processing", "error">>,
    <<"success", "amount">>, <<"error", "amount">>, <<"error", "pin">> }

(* C12: the wizard starts at "amount" and its step changes only along     *)
(* amount->phone, phone->pin, phone->amount, pin->phone, pin->processing, *)
(* processing->success, processing->error, success->amount,               *)
(* error->amount and error->pin; so "success" and "error" are entered     *)
(* only from "processing".                                                 *)
C12_StepsFollowTheGraph ==
  /\ wiz.step = "amount"
  /\ [][wiz'.step # wiz.step => <<wiz.step, wiz'.step>> \in StepChanges]_vars

C12_Witness ==
  /\ wiz.step = "pin"
  /\ wiz.error = NetworkError
  /\ wiz.call = None

Accepted(resp) ==
  resp.kind = "json" /\ resp.ok /\ resp.ResponseCode = Some("0")

GenericMessages == {PaymentFailedError, NetworkError}

(* C13: when the call resolves in "processing", the wizard moves to       *)
(* "success" exactly when the answer is a 2xx with ResponseCode "0"; on   *)
(* any other code, a non-2xx status or a network failure it moves to      *)
(* "error" with a non-empty message, the server's errorMessage when there *)
(* is one and a generic message otherwise.                                 *)
C13_OutcomeFollowsTheAnswer ==
  [][\A resp \in Responses :
       (wiz.step = "processing" /\ CallResolves(resp)) =>
         IF Accepted(resp)
         THEN wiz'.step = "success"
         ELSE /\ wiz'.step = "error"
              /\ wiz'.error # ""
              /\ IF resp.kind = "json" /\ IsSome(resp.errorMessage)
                 THEN wiz'.error = Val(resp.errorMessage)
                 ELSE wiz'.error \in GenericMessages]_vars

C13_Witness ==
  /\ wiz.step = "error"
  /\ wiz.error = Val(ServerMessage)
  /\ ~wiz.loading

(* C14: at the phone step, submitting the local-format number             *)
(* "0712345678" advances the wizard to "pin".                              *)
C14_LocalNumberAdvances ==
  [][(wiz.step = "phone" /\ wiz.formData.phoneNumber = Local0712 /\ PhoneContinue)
       => wiz'.step = "pin"]_vars

(* C14, as the code has it: submitting "0712345678" keeps the wizard on   *)
(* "phone" and shows the phone format message; a submitted number         *)
(* advances to "pin" exactly when it already is 254 and nine digits.      *)
C14_OnlyCanonicalAdvances ==
  [][(wiz.step = "phone" /\ PhoneContinue) =>
       IF Canonical(wiz.formData.phoneNumber)
       THEN wiz'.step = "pin" /\ wiz'.error = ""
       ELSE wiz'.step = "phone" /\ wiz'.error = PhoneError]_vars

C14_Witness ==
  /\ wiz.step = "phone"
  /\ wiz.formData.phoneNumber = Local0712
  /\ wiz.error = PhoneError

(* every control of the user: all of WizardNext but the call's resolution *)
UserAction ==
  \/ \E v \in TypedAmounts : EditAmount(v)
  \/ \E v \in TypedPhones : EditPhone(v)
  \/ \E raw \in TypedPins : EditPin(raw)
  \/ AmountContinue \/ PhoneContinue \/ PhoneBack \/ PayNow \/ PinBack
  \/ TryAgain \/ StartOver \/ MakeAnotherPayment

Settled == wiz.step \in {"success", "error"}

(* C15: while the step is "processing" no user action is enabled; the     *)
(* only step out of it is the resolution of the pending call, which       *)
(* leads to "success" or "error"; and, the call resolving eventually,     *)
(* every "processing" is followed by "success" or "error".                *)
C15_ProcessingOnlyWaits ==
  /\ [](wiz.step = "processing" => (IsSome(wiz.call) /\ ~ENABLED UserAction))
  /\ [][wiz.step = "processing" => wiz'.step \in {"success", "error"}]_vars
  /\ (wiz.step = "processing") ~> Settled

C15_Witness ==
  /\ wiz.step = "processing"
  /\ wiz.loading
  /\ IsSome(wiz.call)

(* C16: going back from "phone" to "amount" keeps the amount; going back  *)
(* from "pin" to "phone" keeps the amount and the phone number; retrying  *)
(* from "error" to "pin" keeps the amount and the phone number.           *)
C16_NavigationKeepsFields ==
  [][/\ (wiz.step = "phone" /\ wiz'.step = "amount")
          => wiz'.formData.amount = wiz.formData.amount
     /\ (wiz.step = "pin" /\ wiz'.step = "phone")
          => /\ wiz'.formData.amount = wiz.formData.amount
             /\ wiz'.formData.phoneNumber = wiz.formData.phoneNumber
     /\ (wiz.step = "error" /\ wiz'.step = "pin")
          => /\ wiz'.formData.amount = wiz.formData.amount
             /\ wiz'.formData.phoneNumber = wiz.formData.phoneNumber]_vars

C16_Witness ==
  /\ wiz.step = "phone"
  /\ wiz.formData.pin # <<>>
  /\ wiz.formData.phoneNumber = Canon712
  /\ wiz.formData.amount # <<>>

(* C17: resetting from "success" or from "error" gives the state of a     *)
(* fresh wizard: step "amount", amount, phone number and PIN empty, no    *)
(* error text, loading false.                                              *)
C17_ResetIsFresh ==
  [][(wiz.step \in {"success", "error"} /\ wiz'.step = "amount") =>
       /\ wiz'.formData.amount = <<>>
       /\ wiz'.formData.phoneNumber = <<>>
       /\ wiz'.formData.pin = <<>>
       /\ wiz'.error = ""
       /\ ~wiz'.loading
       /\ wiz' = WizardInitial]_vars

C17_Witness ==
  /\ wiz.step = "error"
  /\ wiz.formData.pin # <<>>
  /\ wiz.error = PaymentFailedError

-----------------------------------------------------------------------------
(* Properties of the backend (Spec), continued                             *)

Submitted(calls, c) == \E k \in 1..Len(calls) : calls[k] = c

(* C18: when the token exchange errors or answers without a token, the    *)
(* initiation ends there with a failure response: the push request is     *)
(* never submitted and no record is stored.                                *)
C18_NoTokenNoPush ==
  [][\A r \in BagToSet(reqs), t \in {"error", "noToken"} :
       TokenReturn(r, t) =>
         /\ reqs' = Remove(reqs, r)
         /\ last'.op = "initiate"
         /\ last'.res.status = 500
         /\ ~Submitted(last'.calls, "push")
         /\ transactions' = transactions]_vars

(* the gateway has acknowledged a push under this CheckoutRequestID *)
AcceptedByGateway(p) == p.kind = "stk" /\ p.CheckoutRequestID < gwNext

(* C19: every callback the gateway sends for a push it accepted finds     *)
(* the record of that push in the store, however the initiation handler   *)
(* (which stores the record only after the awaited acknowledgment) and    *)
(* the delivery of the callback interleave.                                *)
C19_AcceptedCallbackFindsRecord ==
  [][\A p \in CallbackPayloads :
       (AcceptedByGateway(p) /\ Callback(p)) => MatchesSome(p)]_vars

-----------------------------------------------------------------------------
(* Properties of the wizard (SpecWizard), continued                        *)

(* C20: whenever the step is "processing", and so in every request the    *)
(* wizard sends, the amount is non-empty and not below 1, the phone       *)
(* number is 254 followed by nine digits and the PIN has exactly four     *)
(* characters, whatever edits, back, retry and reset steps came before.   *)
C20_ProcessingHoldsValidForm ==
  wiz.step = "processing" =>
    /\ wiz.formData.amount # <<>>
    /\ parseFloat(wiz.formData.amount) >= 100
    /\ Canonical(wiz.formData.phoneNumber)
    /\ Len(wiz.formData.pin) = 4
    /\ IsSome(wiz.call)
    /\ Val(wiz.call).amount = wiz.formData.amount
    /\ Val(wiz.call).phoneNumber = wiz.formData.phoneNumber

C20_Witness ==
  /\ wiz.step = "processing"
  /\ wiz.formData.amount = <<"1">>
  /\ wiz.formData.phoneNumber = Canon712
  /\ Len(wiz.formData.pin) = 4

(* the validation message of an input step *)
OwnMessage(step) ==
  CASE step = "amount" -> AmountError
    [] step = "phone" -> PhoneError
    [] step = "pin" -> PinError

(* C21: on an input step ("amount", "phone", "pin") the error text is     *)
(* empty or that step's own validation message; no text set on another    *)
(* step or by a failed payment is carried over by Back or Try Again.      *)
C21_ErrorBelongsToStep ==
  wiz.step \in {"amount", "phone", "pin"} =>
    wiz.error \in {"", OwnMessage(wiz.step)}

====
